---- MODULE Spec2Model ----
(***************************************************************************)
(* Verification model of raster-utils: the chunk configuration builder     *)
(* (src/chunking/builder.rs), the chunk iterator over a configuration      *)
(* (chunking/iters.rs, described in spec.md section 4.2), the geometry     *)
(* conversions (src/geometry.rs) and the alignment engine (src/align.rs).  *)
(*                                                                         *)
(* Two specifications share the variables:                                 *)
(*   Spec       builder calls in any order, build, iteration, conversion   *)
(*              of the yielded chunk window into a RasterWindow;           *)
(*   SpecAlign  chunk_transform followed by index_transformer.             *)
(* Quantities of type usize are naturals far below 2^64, and f64 values    *)
(* are dyadic rationals held exactly (in units of 1/Scale), so no rounding *)
(* or overflow occurs inside the bounds explored here.                     *)
(***************************************************************************)
EXTENDS Integers, Sequences, FiniteSets, TLC

VARIABLES
    cfg,        \* the ChunkConfig held by the builder / the built configuration
    pc,         \* "builder" | "built" | "iter" | "done" | "idle"
    cursor,     \* the iterator's cursor (a row index)
    emitted,    \* the windows yielded so far by the current traversal
    rw,         \* result of converting the last yielded ChunkWindow
    added,      \* history: the block sizes passed to add_block_size so far
    simple,     \* history: position in the call chain of tests::test_simple
    requested,  \* history: the last with_data_height / with_data_size call
    prev,       \* history: the windows of the previous complete traversal
    g_pair,     \* geometry: the (offset, size) pair a window is built from
    g_window,   \* geometry: the RasterWindow built from g_pair
    g_back,     \* geometry: (offset(), size()) read back from g_window
    g_gdal,     \* geometry: g_window converted into (GdalOffset, Size)
    gpc,        \* geometry: "idle" | "start" | "window" | "consumed"
    geo_compose,\* which operand geo's AffineTransform::compose applies first
    transform,  \* align: the grid-to-grid PixelPixelTransform
    off_1,      \* align: origin of the source chunk
    off_2,      \* align: origin of the target chunk
    chunk_t,    \* align: result of chunk_transform
    dim,        \* align: (cols, rows) captured by index_transformer
    indexes,    \* align: the (col, row) the closure was last applied to
    out,        \* align: what the closure returned
    apc         \* align: "idle" | "start" | "chunked" | "closure" | "applied"

vars == <<cfg, pc, cursor, emitted, rw, added, simple, requested, prev,
          g_pair, g_window, g_back, g_gdal, gpc, geo_compose,
          transform, off_1, off_2, chunk_t, dim, indexes, out, apc>>

chunkVars == <<cfg, pc, cursor, emitted, rw, added, simple, requested, prev>>
geomVars == <<g_pair, g_window, g_back, g_gdal, gpc>>
alignVars == <<geo_compose, transform, off_1, off_2, chunk_t, dim, indexes, out, apc>>

----------------------------------------------------------------------------
(* Bounds of the explored inputs.                                          *)
MaxWidth == 2
MaxHeight == 3
MaxBlock == 3
MaxDataHeight == 2
MaxDataSize == 3
MaxPadding == 1
MaxStart == 3
MaxEnd == 3
Scale == 2
MaxCoef == 1
MaxShear == 1
MaxTrans == 1
MaxOff == 1
MaxDim == 2
MaxIndex == 1
MaxCoord == 3
(* Digits of the f64 significand.  f64::MANTISSA_DIGITS is 53; the model   *)
(* keeps a significand short enough for the explored integers to pass it.  *)
MantissaDigits == 6

(* The arguments of tests::test_simple.                                    *)
TestWidth == 32
TestHeight == 20
TestBlock == 2
TestPadding == 7
TestEnd == 10

Dims == ((1..MaxWidth) \X (1..MaxHeight)) \cup {<<TestWidth, TestHeight>>}
BlockSizes == 1..MaxBlock
DataHeights == 1..MaxDataHeight
DataSizes == 1..MaxDataSize
Paddings == (0..MaxPadding) \cup {TestPadding}
Starts == 0..MaxStart
Ends == (0..MaxEnd) \cup {TestEnd}

(* Alignment inputs: integer linear parts, translations in units of        *)
(* 1/Scale, origins of full-width chunks (column 0, as the chunk iterator  *)
(* produces them), target dimensions and local indices.                    *)
Transforms ==
    [a : -1..MaxCoef, b : 0..MaxShear, xoff : -1..MaxTrans,
     d : 0..MaxShear, e : -1..MaxCoef, yoff : -1..MaxTrans]
Offsets == {0} \X (0..MaxOff)
TargetDims == (1..MaxDim) \X (1..MaxDim)
LocalIndexes == (0..MaxIndex) \X (0..MaxIndex)

(* Geometry inputs: (offset, size) pairs of pixel counts.                  *)
Exact == 2 ^ MantissaDigits
Coord1 == (0..MaxCoord) \cup {Exact - 1, Exact, Exact + 1, Exact + 3}
Coords == Coord1 \X Coord1

----------------------------------------------------------------------------
(* Integer helpers.                                                        *)
Max(a, b) == IF a >= b THEN a ELSE b
Min(a, b) == IF a <= b THEN a ELSE b

RECURSIVE gcd(_, _)
gcd(a, b) == IF b = 0 THEN a ELSE gcd(b, a % b)

lcm(a, b) == IF a = 0 \/ b = 0 THEN 0 ELSE a * (b \div gcd(a, b))

div_ceil(n, m) ==
    LET d == n \div m
        r == n % m
    IN  IF r > 0 THEN d + 1 ELSE d

next_multiple_floor(num, m) == (num \div m) * m
next_multiple_strict(num, m) == (num \div m + 1) * m
next_multiple(num, m) == div_ceil(num, m) * m

----------------------------------------------------------------------------
(* ChunkConfigBuilder: every operation takes the configuration and returns *)
(* the updated one.                                                        *)
new(width, height) ==
    [width |-> width, height |-> height,
     block_size |-> 1, data_height |-> 1, padding |-> 0,
     start |-> 0, end |-> height]

adjust_data_height(c) ==
    [c EXCEPT !.data_height = next_multiple(c.data_height, c.block_size)]

add_block_size_no_adjust(c, block_size) ==
    IF c.block_size # block_size
    THEN [c EXCEPT !.block_size = lcm(c.block_size, block_size)]
    ELSE c
add_block_size_replace(c, block_size) ==
    IF c.block_size # block_size
    THEN adjust_data_height([c EXCEPT !.block_size = block_size])
    ELSE c
add_block_size(c, block_size) ==
    IF c.block_size # block_size
    THEN adjust_data_height([c EXCEPT !.block_size = lcm(c.block_size, block_size)])
    ELSE c

with_data_height_no_adjust(c, data_height) == [c EXCEPT !.data_height = data_height]
with_data_height(c, data_height) ==
    adjust_data_height([c EXCEPT !.data_height = data_height])

with_data_size_floor(c, data_size) ==
    with_data_height(c, data_size \div c.width)
with_data_size(c, data_size) ==
    with_data_height(c, (data_size + c.width - 1) \div c.width)

adjust_start(c) == [c EXCEPT !.start = Max(c.start, c.padding)]

with_padding_no_adjust(c, padding) == [c EXCEPT !.padding = padding]
with_padding(c, padding) == adjust_start([c EXCEPT !.padding = padding])

with_start_no_adjust(c, start) == [c EXCEPT !.start = start]
with_start(c, start) == adjust_start([c EXCEPT !.start = start])

with_end_no_min(c, end) == [c EXCEPT !.end = end]
with_end_writes_start(c, end) == [c EXCEPT !.start = Min(end, c.height)]
with_end(c, end) == [c EXCEPT !.end = Min(end, c.height)]

build(c) == c

----------------------------------------------------------------------------
(* geometry.rs.  An f64 coordinate is held as an integer count of 1/Scale. *)
(* The distance between neighbouring f64 values around the integer n:     *)
(* every integer up to Exact is an f64, every second one up to 2 * Exact,  *)
(* and so on.                                                              *)
RECURSIVE ulp(_)
ulp(n) == IF n < Exact THEN 1 ELSE 2 * ulp(n \div 2)

(* The f64 nearest to the integer n, ties to the even significand.         *)
f64_of_int(n) ==
    LET u == ulp(n)
        lo == (n \div u) * u
        r == n - lo
    IN  IF 2 * r < u THEN lo
        ELSE IF 2 * r > u THEN lo + u
        ELSE IF (lo \div u) % 2 = 0 THEN lo ELSE lo + u

(* The rounding of an f64 sum or difference.  Fractions occur only far     *)
(* below Exact, where every multiple of 1/Scale held here is exact.        *)
f64_round(v) ==
    IF v >= 0 /\ v % Scale = 0 THEN f64_of_int(v \div Scale) * Scale ELSE v

(* The cast `as f64` of a usize.                                           *)
as_f64(tuple) == <<f64_of_int(tuple[1]) * Scale, f64_of_int(tuple[2]) * Scale>>

(* floor, then the saturating cast `as usize` (a negative value gives 0).  *)
as_usize(tuple) == <<Max(0, tuple[1] \div Scale), Max(0, tuple[2] \div Scale)>>

(* Rect::new orders the two corners component-wise.                        *)
Rect_new(c1, c2) ==
    [min |-> <<Min(c1[1], c2[1]), Min(c1[2], c2[2])>>,
     max |-> <<Max(c1[1], c2[1]), Max(c1[2], c2[2])>>]

RasterWindow_from(offset, size) ==
    LET min == as_f64(offset)
        max == <<f64_round(min[1] + as_f64(size)[1]),
                 f64_round(min[2] + as_f64(size)[2])>>
    IN  Rect_new(min, max)

RasterWindow_offset(w) == as_usize(w.min)
RasterWindow_size_of_max(w) == as_usize(w.max)
RasterWindow_size(w) ==
    as_usize(<<f64_round(w.max[1] - w.min[1]), f64_round(w.max[2] - w.min[2])>>)
RasterWindow_shape(w) == <<RasterWindow_size(w)[2], RasterWindow_size(w)[1]>>
RasterWindow_num_pixels(w) ==
    ((w.max[1] - w.min[1]) * (w.max[2] - w.min[2])) \div (Scale * Scale)

(* The cast `as isize` of a usize: unchanged below 2^63, the only values   *)
(* held here.                                                              *)
as_isize(x) == x

(* impl From<RasterWindow> for (GdalOffset, Size)                          *)
RasterWindow_into_gdal(w) ==
    LET xy == RasterWindow_offset(w)
    IN  <<<<as_isize(xy[1]), as_isize(xy[2])>>, RasterWindow_size(w)>>

(* impl From<ChunkWindow> for RasterWindow.  The triple's third component  *)
(* is bound to the name `end` and `end - start` is taken as the height.    *)
(* When the third component is below `start` the usize subtraction         *)
(* overflows: a panic with overflow checks, a value wrapped modulo 2^64    *)
(* without; "overflow" stands for either, with the missing amount.         *)
RasterWindow_from_chunk(c, start, end) ==
    IF end >= start
    THEN [kind |-> "window",
          rect |-> RasterWindow_from(<<0, start>>, <<c.width, end - start>>)]
    ELSE [kind |-> "overflow", deficit |-> start - end]

----------------------------------------------------------------------------
(* The chunk iterator over a configuration (chunking/iters.rs).            *)
iter_data_end(c, cur) == Min(c.end, cur + c.data_height)
iter_window_start(c, cur) == Max(0, cur - c.padding)
iter_window_end(c, cur) == Min(c.height, iter_data_end(c, cur) + c.padding)

(* The item yielded at cursor cur: (start, size), kept with the data       *)
(* portion [cur, data_end) it was computed from.                           *)
iter_item(c, cur) ==
    [cur |-> cur,
     data_end |-> iter_data_end(c, cur),
     start |-> iter_window_start(c, cur),
     size |-> iter_window_end(c, cur) - iter_window_start(c, cur)]

----------------------------------------------------------------------------
(* History of the calls made on the builder.  `simple` follows the chain   *)
(* of tests::test_simple: new(32, 20), add_block_size(2), with_padding(7), *)
(* with_end(10), build; -1 once the calls leave that chain.                *)
(* `requested` is the last data height or data size asked of the builder;  *)
(* it ends with the builder, which build() consumes.                       *)
NoWindow == [kind |-> "none"]
NoRequest == [kind |-> "none", arg |-> 1]
NoTraversal == [kind |-> "none"]

simple_step(op, arg) ==
    CASE simple = 0 /\ op = "add_block_size" /\ arg = TestBlock -> 1
      [] simple = 1 /\ op = "with_padding" /\ arg = TestPadding -> 2
      [] simple = 2 /\ op = "with_end" /\ arg = TestEnd -> 3
      [] simple = 3 /\ op = "build" -> 4
      [] OTHER -> -1

AddBlockSize ==
    /\ pc = "builder"
    /\ \E b \in BlockSizes :
          /\ cfg' = add_block_size(cfg, b)
          /\ added' = added \cup {b}
          /\ simple' = simple_step("add_block_size", b)
    /\ UNCHANGED <<pc, cursor, emitted, rw, requested, prev>>
    /\ UNCHANGED alignVars
    /\ UNCHANGED geomVars

WithDataHeight ==
    /\ pc = "builder"
    /\ \E h \in DataHeights :
          /\ cfg' = with_data_height(cfg, h)
          /\ requested' = [kind |-> "with_data_height", arg |-> h]
    /\ simple' = -1
    /\ UNCHANGED <<pc, cursor, emitted, rw, added, prev>>
    /\ UNCHANGED alignVars
    /\ UNCHANGED geomVars

WithDataSize ==
    /\ pc = "builder"
    /\ \E s \in DataSizes :
          /\ cfg' = with_data_size(cfg, s)
          /\ requested' = [kind |-> "with_data_size", arg |-> s]
    /\ simple' = -1
    /\ UNCHANGED <<pc, cursor, emitted, rw, added, prev>>
    /\ UNCHANGED alignVars
    /\ UNCHANGED geomVars

WithPadding ==
    /\ pc = "builder"
    /\ \E p \in Paddings :
          /\ cfg' = with_padding(cfg, p)
          /\ simple' = simple_step("with_padding", p)
    /\ UNCHANGED <<pc, cursor, emitted, rw, added, requested, prev>>
    /\ UNCHANGED alignVars
    /\ UNCHANGED geomVars

WithStart ==
    /\ pc = "builder"
    /\ \E s \in Starts : cfg' = with_start(cfg, s)
    /\ simple' = -1
    /\ UNCHANGED <<pc, cursor, emitted, rw, added, requested, prev>>
    /\ UNCHANGED alignVars
    /\ UNCHANGED geomVars

WithEnd ==
    /\ pc = "builder"
    /\ \E e \in Ends :
          /\ cfg' = with_end(cfg, e)
          /\ simple' = simple_step("with_end", e)
    /\ UNCHANGED <<pc, cursor, emitted, rw, added, requested, prev>>
    /\ UNCHANGED alignVars
    /\ UNCHANGED geomVars

Build ==
    /\ pc = "builder"
    /\ cfg' = build(cfg)
    /\ pc' = "built"
    /\ simple' = simple_step("build", 0)
    /\ requested' = NoRequest
    /\ UNCHANGED <<cursor, emitted, rw, added, prev>>
    /\ UNCHANGED alignVars
    /\ UNCHANGED geomVars

IntoIter_resume ==
    /\ pc \in {"built", "done"}
    /\ pc' = "iter"
    /\ cursor' = cursor
    /\ emitted' = <<>>
    /\ rw' = NoWindow
    /\ prev' = IF pc = "done" THEN [kind |-> "windows", windows |-> emitted] ELSE prev
    /\ UNCHANGED <<cfg, added, simple, requested>>
    /\ UNCHANGED alignVars
    /\ UNCHANGED geomVars

(* (&cfg).into_iter(): a fresh traversal, also after an earlier one ended. *)
IntoIter ==
    /\ pc \in {"built", "done"}
    /\ pc' = "iter"
    /\ cursor' = cfg.start
    /\ emitted' = <<>>
    /\ rw' = NoWindow
    /\ prev' = IF pc = "done" THEN [kind |-> "windows", windows |-> emitted] ELSE prev
    /\ UNCHANGED <<cfg, added, simple, requested>>
    /\ UNCHANGED alignVars
    /\ UNCHANGED geomVars

(* Iterator::next: None at cursor >= end, else the window at the cursor.   *)
IterNext ==
    /\ pc = "iter"
    /\ IF cursor >= cfg.end
       THEN /\ pc' = "done"
            /\ UNCHANGED <<cursor, emitted>>
       ELSE /\ emitted' = Append(emitted, iter_item(cfg, cursor))
            /\ cursor' = iter_data_end(cfg, cursor)
            /\ pc' = "iter"
    /\ rw' = NoWindow
    /\ UNCHANGED <<cfg, added, simple, requested, prev>>
    /\ UNCHANGED alignVars
    /\ UNCHANGED geomVars

(* RasterWindow::from(chunk) on the window just yielded (as read_chunk     *)
(* does in gdal/readers.rs).                                               *)
FromChunkWindow ==
    /\ pc = "iter"
    /\ emitted # <<>>
    /\ rw = NoWindow
    /\ LET item == emitted[Len(emitted)]
       IN  rw' = RasterWindow_from_chunk(cfg, item.start, item.size)
    /\ UNCHANGED <<cfg, pc, cursor, emitted, added, simple, requested, prev>>
    /\ UNCHANGED alignVars
    /\ UNCHANGED geomVars

----------------------------------------------------------------------------
(* geo::AffineTransform, the matrix [[a, b, xoff], [d, e, yoff], [0, 0, 1]]*)
(* with a, b, d, e integers and xoff, yoff counted in units of 1/Scale.    *)
translate(x, y) == [a |-> 1, b |-> 0, xoff |-> x, d |-> 0, e |-> 1, yoff |-> y]

apply(t, p) ==
    <<t.a * p[1] + t.b * p[2] + t.xoff, t.d * p[1] + t.e * p[2] + t.yoff>>

(* The matrix product g x f: the map that applies f, then g.               *)
MatMul(g, f) ==
    [a |-> g.a * f.a + g.b * f.d,
     b |-> g.a * f.b + g.b * f.e,
     xoff |-> g.a * f.xoff + g.b * f.yoff + g.xoff,
     d |-> g.d * f.a + g.e * f.d,
     e |-> g.d * f.b + g.e * f.e,
     yoff |-> g.d * f.xoff + g.e * f.yoff + g.yoff]

(* self.compose(other).  The geo crate is not pinned by the sources and    *)
(* its releases differ in the operand applied first, so both are explored. *)
compose(self, other) ==
    IF geo_compose = "self_first" THEN MatMul(other, self) ELSE MatMul(self, other)

----------------------------------------------------------------------------
(* align.rs                                                                *)
chunk_transform(t, o1, o2) ==
    LET moved == apply(compose(translate(-Scale, -Scale), t), as_f64(o1))
        residue == <<moved[1] - as_f64(o2)[1], moved[2] - as_f64(o2)[2]>>
    IN  compose(translate(residue[1], residue[2]), t)

None == [kind |-> "None"]
Some(v) == [kind |-> "Some", val |-> v]

(* The closure returned by index_transformer(chunk_t, dim), applied.       *)
index_transformer_swapped(t, dm, idx) ==
    LET pt == apply(t, as_f64(idx))
    IN  IF pt[1] < 0 \/ pt[2] < 0
        THEN None
        ELSE LET j_2 == as_usize(pt)[1]
                 i_2 == as_usize(pt)[2]
             IN  IF j_2 >= dm[1] \/ i_2 >= dm[2] THEN None ELSE Some(<<j_2, i_2>>)
index_transformer(t, dm, idx) ==
    LET pt == apply(t, as_f64(idx))
    IN  IF pt[1] < 0 \/ pt[2] < 0
        THEN None
        ELSE LET j_2 == as_usize(pt)[1]
                 i_2 == as_usize(pt)[2]
             IN  IF j_2 >= dm[1] \/ i_2 >= dm[2] THEN None ELSE Some(<<i_2, j_2>>)

Unset == [kind |-> "unset"]

ChunkTransform ==
    /\ apc = "start"
    /\ chunk_t' = chunk_transform(transform, off_1, off_2)
    /\ apc' = "chunked"
    /\ UNCHANGED <<geo_compose, transform, off_1, off_2, dim, indexes, out>>
    /\ UNCHANGED chunkVars
    /\ UNCHANGED geomVars

IndexTransformer ==
    /\ apc = "chunked"
    /\ \E dm \in TargetDims : dim' = dm
    /\ apc' = "closure"
    /\ UNCHANGED <<geo_compose, transform, off_1, off_2, chunk_t, indexes, out>>
    /\ UNCHANGED chunkVars
    /\ UNCHANGED geomVars

(* One call of the closure.  It captures chunk_t and dim by value and      *)
(* changes nothing, so every call is a function of its argument alone and  *)
(* one call per index covers all of them.                                  *)
ApplyIndex ==
    /\ apc = "closure"
    /\ \E idx \in LocalIndexes :
          /\ indexes' = idx
          /\ out' = index_transformer(chunk_t, dim, idx)
    /\ apc' = "applied"
    /\ UNCHANGED <<geo_compose, transform, off_1, off_2, chunk_t, dim>>
    /\ UNCHANGED chunkVars
    /\ UNCHANGED geomVars

----------------------------------------------------------------------------
(* The alignment variables at rest, while Spec runs.                       *)
Identity == [a |-> 1, b |-> 0, xoff |-> 0, d |-> 0, e |-> 1, yoff |-> 0]

AlignIdle ==
    /\ geo_compose = "self_first"
    /\ transform = Identity
    /\ off_1 = <<0, 0>>
    /\ off_2 = <<0, 0>>
    /\ chunk_t = Identity
    /\ dim = <<0, 0>>
    /\ indexes = <<0, 0>>
    /\ out = Unset
    /\ apc = "idle"

(* The geometry variables at rest, while Spec and SpecAlign run.           *)
GeomIdle ==
    /\ g_pair = <<<<0, 0>>, <<0, 0>>>>
    /\ g_window = NoWindow
    /\ g_back = NoWindow
    /\ g_gdal = NoWindow
    /\ gpc = "idle"

(* The chunking variables at rest, while the other specifications run.     *)
ChunkIdle ==
    /\ cfg = new(1, 1)
    /\ pc = "idle"
    /\ cursor = 0
    /\ emitted = <<>>
    /\ rw = NoWindow
    /\ added = {}
    /\ simple = -1
    /\ requested = NoRequest
    /\ prev = NoTraversal

Init ==
    /\ \E wh \in Dims : cfg = new(wh[1], wh[2])
    /\ pc = "builder"
    /\ cursor = 0
    /\ emitted = <<>>
    /\ rw = NoWindow
    /\ added = {}
    /\ simple = IF cfg.width = TestWidth /\ cfg.height = TestHeight THEN 0 ELSE -1
    /\ requested = NoRequest
    /\ prev = NoTraversal
    /\ AlignIdle
    /\ GeomIdle

Next ==
    \/ AddBlockSize
    \/ WithDataHeight
    \/ WithDataSize
    \/ WithPadding
    \/ WithStart
    \/ WithEnd
    \/ Build
    \/ IntoIter
    \/ IterNext
    \/ FromChunkWindow

Spec == Init /\ [][Next]_vars

(* A traversal that is consumed: the caller keeps calling next() until it  *)
(* returns None, as the for loop of tests::debug_cfg and the collect() of  *)
(* tests::check_cfg do.                                                    *)
SpecFair == Spec /\ WF_vars(IterNext)

(* The window conversions of geometry.rs alone.                            *)
FromOffsetSize ==
    /\ gpc = "start"
    /\ g_window' = [kind |-> "window",
                    rect |-> RasterWindow_from(g_pair[1], g_pair[2])]
    /\ gpc' = "window"
    /\ UNCHANGED <<g_pair, g_back, g_gdal>>
    /\ UNCHANGED chunkVars
    /\ UNCHANGED alignVars

(* offset() and size() borrow the window.                                  *)
OffsetAndSize ==
    /\ gpc = "window"
    /\ g_back = NoWindow
    /\ g_back' = [kind |-> "pair",
                  offset |-> RasterWindow_offset(g_window.rect),
                  size |-> RasterWindow_size(g_window.rect)]
    /\ UNCHANGED <<g_pair, g_window, g_gdal, gpc>>
    /\ UNCHANGED chunkVars
    /\ UNCHANGED alignVars

(* into() consumes the window.                                             *)
IntoGdal ==
    /\ gpc = "window"
    /\ LET r == RasterWindow_into_gdal(g_window.rect)
       IN  g_gdal' = [kind |-> "pair", offset |-> r[1], size |-> r[2]]
    /\ gpc' = "consumed"
    /\ UNCHANGED <<g_pair, g_window, g_back>>
    /\ UNCHANGED chunkVars
    /\ UNCHANGED alignVars

InitGeom ==
    /\ ChunkIdle
    /\ AlignIdle
    /\ g_pair \in Coords \X Coords
    /\ g_window = NoWindow
    /\ g_back = NoWindow
    /\ g_gdal = NoWindow
    /\ gpc = "start"

NextGeom ==
    \/ FromOffsetSize
    \/ OffsetAndSize
    \/ IntoGdal

SpecGeom == InitGeom /\ [][NextGeom]_vars

(* The alignment engine alone; the chunking variables stay at rest.        *)
InitAlign ==
    /\ ChunkIdle
    /\ GeomIdle
    /\ geo_compose \in {"self_first", "other_first"}
    /\ transform \in Transforms
    /\ off_1 \in Offsets
    /\ off_2 \in Offsets
    /\ chunk_t = Identity
    /\ dim = <<0, 0>>
    /\ indexes = <<0, 0>>
    /\ out = Unset
    /\ apc = "start"

NextAlign ==
    \/ ChunkTransform
    \/ IndexTransformer
    \/ ApplyIndex

SpecAlign == InitAlign /\ [][NextAlign]_vars

----------------------------------------------------------------------------
(* Claims about the builder and the iterator, checked under Spec.          *)

Windows == [i \in 1..Len(emitted) |-> <<emitted[i].start, emitted[i].size>>]

PortionsHolding(r) ==
    {i \in 1..Len(emitted) : emitted[i].cur <= r /\ r < emitted[i].data_end}

(* C1: the data portions [c_i, data_end_i) of the yielded windows, with    *)
(* c_0 = start and c_{i+1} = data_end_i, partition [start, end): each      *)
(* portion is a non-empty range inside [start, end), every row reached so  *)
(* far lies in exactly one of them, and when the traversal has ended every *)
(* row of [start, end) does.                                               *)
C1_CoveragePartition ==
    pc \in {"iter", "done"} =>
       /\ \A i \in 1..Len(emitted) :
             /\ emitted[i].cur < emitted[i].data_end
             /\ cfg.start <= emitted[i].cur
             /\ emitted[i].data_end <= cfg.end
             /\ emitted[i].cur = IF i = 1 THEN cfg.start ELSE emitted[i - 1].data_end
       /\ \A r \in cfg.start..(cursor - 1) : Cardinality(PortionsHolding(r)) = 1
       /\ pc = "done" =>
             \A r \in cfg.start..(cfg.end - 1) : Cardinality(PortionsHolding(r)) = 1

C1_Witness ==
    /\ pc = "done"
    /\ Len(emitted) >= 2
    /\ cfg.padding > 0
    /\ cfg.data_height > 1
    /\ emitted[Len(emitted)].data_end - emitted[Len(emitted)].cur < cfg.data_height

(* C2: every yielded window (start, size) lies inside the grid and is not  *)
(* empty: 0 <= start, start + size <= height, size > 0.                    *)
C2_WindowBounds ==
    \A i \in 1..Len(emitted) :
       /\ 0 <= emitted[i].start
       /\ emitted[i].start + emitted[i].size <= cfg.height
       /\ emitted[i].size > 0

C2_Witness ==
    /\ pc = "done"
    /\ cfg.padding > 0
    /\ \E i \in 1..Len(emitted) :
          /\ emitted[i].start = 0
          /\ emitted[i].start + emitted[i].size = cfg.height
          /\ emitted[i].data_end + cfg.padding > cfg.height

(* C3: at a cursor c < end the iterator yields (window_start, window_end - *)
(* window_start) with data_end = min(end, c + data_height), window_start = *)
(* max(0, c - padding), window_end = min(height, data_end + padding), and  *)
(* moves the cursor to data_end; the configuration of tests::test_simple   *)
(* yields exactly (0, 16), (2, 15).                                        *)
C3_EmittedWindow ==
    /\ \A i \in 1..Len(emitted) :
          LET c == emitted[i].cur
              data_end == IF c + cfg.data_height <= cfg.end
                          THEN c + cfg.data_height ELSE cfg.end
              window_start == IF c >= cfg.padding THEN c - cfg.padding ELSE 0
              window_end == IF data_end + cfg.padding <= cfg.height
                            THEN data_end + cfg.padding ELSE cfg.height
          IN  /\ c < cfg.end
              /\ Windows[i] = <<window_start, window_end - window_start>>
              /\ emitted[i].data_end = data_end
              /\ data_end = IF i = Len(emitted) THEN cursor ELSE emitted[i + 1].cur
    /\ (simple = 4 /\ pc = "done") =>
          /\ cfg.width = 32 /\ cfg.height = 20
          /\ Windows = << <<0, 16>>, <<2, 15>> >>

C3_Witness == simple = 4 /\ pc = "done" /\ Len(emitted) = 2

IsCommonMultiple(n, S) == \A b \in S : n % b = 0

(* C4: after any sequence of builder calls data_height is a positive exact *)
(* multiple of block_size.                                                 *)
C4_BlockAlignment ==
    /\ cfg.data_height > 0
    /\ cfg.block_size > 0
    /\ cfg.data_height % cfg.block_size = 0

C4_Witness ==
    /\ Cardinality(added) >= 2
    /\ cfg.block_size > 1
    /\ cfg.data_height > cfg.block_size

(* C5: block_size is the least common multiple of the block sizes passed   *)
(* to add_block_size, whatever their order and repetition (1 when none     *)
(* was passed).                                                            *)
C5_LcmAccumulation ==
    /\ cfg.block_size >= 1
    /\ IsCommonMultiple(cfg.block_size, added)
    /\ \A m \in 1..(cfg.block_size - 1) : ~IsCommonMultiple(m, added)

C5_Witness ==
    /\ Cardinality(added) >= 2
    /\ cfg.block_size \notin added

(* C6: after any sequence of builder calls start >= padding and end <=     *)
(* height; with_end(e) stores min(e, height), and with_start and           *)
(* with_padding leave start at max(requested start, padding).              *)
C6_StartEndClamp ==
    /\ [](cfg.start >= cfg.padding /\ cfg.end <= cfg.height)
    /\ [][WithEnd =>
            \A e \in Ends :
               cfg' = with_end(cfg, e) =>
                  cfg'.end = IF e <= cfg.height THEN e ELSE cfg.height]_vars
    /\ [][WithStart =>
            \A s \in Starts :
               cfg' = with_start(cfg, s) =>
                  cfg'.start = IF s >= cfg.padding THEN s ELSE cfg.padding]_vars
    /\ [][WithPadding =>
            \A p \in Paddings :
               cfg' = with_padding(cfg, p) =>
                  /\ cfg'.padding = p
                  /\ cfg'.start = IF cfg.start >= p THEN cfg.start ELSE p]_vars

C6_Witness ==
    /\ pc = "builder"
    /\ cfg.padding > 0
    /\ cfg.start = cfg.padding
    /\ cfg.end < cfg.height

(* C10: converting the yielded triple (configuration, start row, row       *)
(* count) gives the window with offset (0, start row) and size (width, row *)
(* count), whose pixel count is width * row count.                         *)
C10_ChunkToRasterWindow ==
    rw # NoWindow =>
       LET item == emitted[Len(emitted)]
       IN  /\ rw.kind = "window"
           /\ RasterWindow_offset(rw.rect) = <<0, item.start>>
           /\ RasterWindow_size(rw.rect) = <<cfg.width, item.size>>
           /\ RasterWindow_num_pixels(rw.rect) = cfg.width * item.size

----------------------------------------------------------------------------
(* Claims about the alignment engine, checked under SpecAlign.             *)

(* transform(off_1 + p) - off_2 for a local index p of the source chunk.   *)
TargetLocal(p) ==
    LET q == apply(transform, as_f64(<<off_1[1] + p[1], off_1[2] + p[2]>>))
    IN  <<q[1] - as_f64(off_2)[1], q[2] - as_f64(off_2)[2]>>

(* C7: chunk_transform keeps the linear part (a, b, d, e) of transform and *)
(* has the translation transform(off_1) - off_2, so that for every local   *)
(* index p: result(p) + off_2 = transform(off_1 + p).                      *)
C7_ChunkTransformResidue ==
    apc # "start" =>
       /\ chunk_t.a = transform.a /\ chunk_t.b = transform.b
       /\ chunk_t.d = transform.d /\ chunk_t.e = transform.e
       /\ <<chunk_t.xoff, chunk_t.yoff>> = TargetLocal(<<0, 0>>)
       /\ \A p \in LocalIndexes : apply(chunk_t, as_f64(p)) = TargetLocal(p)

(* C8: for the identity transform and off_1 = off_2, chunk_transform       *)
(* returns the identity, and the closure of index_transformer maps every   *)
(* local index inside the target dimensions to itself (the same column and *)
(* row, returned as (row, col)).                                           *)
C8_IdentityRoundTrip ==
    (apc # "start" /\ transform = Identity /\ off_1 = off_2) =>
       /\ chunk_t = Identity
       /\ (apc = "applied" /\ indexes[1] < dim[1] /\ indexes[2] < dim[2]) =>
             out = Some(<<indexes[2], indexes[1]>>)

(* C9: the closure maps (col, row) to (x, y) = chunk_t(col, row); it       *)
(* returns None exactly when x < 0, y < 0, floor(x) >= cols or             *)
(* floor(y) >= rows, and otherwise Some((floor(y), floor(x))), where       *)
(* floor(v) is the integer n with n <= v < n + 1.                          *)
C9_IndexTransformer ==
    apc = "applied" =>
       LET x == chunk_t.a * Scale * indexes[1] + chunk_t.b * Scale * indexes[2]
                   + chunk_t.xoff
           y == chunk_t.d * Scale * indexes[1] + chunk_t.e * Scale * indexes[2]
                   + chunk_t.yoff
           cols == dim[1]
           rows == dim[2]
       IN  /\ out.kind \in {"None", "Some"}
           /\ out.kind = "None" <=>
                 \/ x < 0
                 \/ y < 0
                 \/ x >= cols * Scale
                 \/ y >= rows * Scale
           /\ out.kind = "Some" =>
                 /\ out.val[1] * Scale <= y /\ y < (out.val[1] + 1) * Scale
                 /\ out.val[2] * Scale <= x /\ x < (out.val[2] + 1) * Scale

C9_Witness ==
    /\ apc = "applied"
    /\ out.kind = "Some"
    /\ out.val[1] # out.val[2]
    /\ apply(chunk_t, as_f64(indexes))[1] % Scale # 0
    /\ indexes # <<out.val[2], out.val[1]>>

----------------------------------------------------------------------------
(* Further claims about the iterator, checked under Spec.                  *)

(* C11: windows are yielded in strictly increasing row order: each window  *)
(* starts below the next one, and the cursor grows with every window       *)
(* yielded.                                                                *)
C11_StrictlyIncreasing ==
    /\ \A i \in 1..(Len(emitted) - 1) :
          /\ emitted[i + 1].start > emitted[i].start
          /\ emitted[i + 1].cur > emitted[i].cur
    /\ emitted # <<>> => cursor > emitted[Len(emitted)].cur

C11_Witness ==
    /\ pc = "done"
    /\ Len(emitted) >= 3
    /\ cfg.padding > 0
    /\ emitted[1].start > 0

(* C16: padding is clipped only at the grid edges and never shrinks the    *)
(* data portion: a window holds its whole data portion [c, data_end), has  *)
(* exactly `padding` rows above it (window_start = c - padding) and        *)
(* exactly min(padding, height - data_end) rows below it.                  *)
C16_PaddingClipping ==
    \A i \in 1..Len(emitted) :
       LET w == emitted[i]
           window_end == w.start + w.size
           below == IF cfg.padding <= cfg.height - w.data_end
                    THEN cfg.padding ELSE cfg.height - w.data_end
       IN  /\ w.start <= w.cur
           /\ w.data_end <= window_end
           /\ w.cur - w.start = cfg.padding
           /\ window_end - w.data_end = below

C16_Witness ==
    /\ cfg.padding > 0
    /\ \E i \in 1..Len(emitted) :
          /\ emitted[i].start + emitted[i].size - emitted[i].data_end < cfg.padding
          /\ emitted[i].cur - emitted[i].start = cfg.padding
    /\ \E i \in 1..Len(emitted) :
          emitted[i].start + emitted[i].size - emitted[i].data_end = cfg.padding

(* The number of windows of a traversal: the least n with                  *)
(* start + n * data_height >= end, that is ceil((end - start) /            *)
(* data_height), and 0 when start >= end.                                  *)
WindowCount ==
    IF cfg.start >= cfg.end
    THEN 0
    ELSE CHOOSE n \in 1..(cfg.end - cfg.start) :
            /\ cfg.start + n * cfg.data_height >= cfg.end
            /\ cfg.start + (n - 1) * cfg.data_height < cfg.end

(* C12: a traversal that is consumed always ends, after exactly            *)
(* ceil((end - start) / data_height) windows when start < end and after    *)
(* none when start >= end.  Checked under SpecFair.                        *)
C12_Termination ==
    /\ [](pc \in {"iter", "done"} =>
             /\ cfg.data_height > 0
             /\ Len(emitted) <= WindowCount
             /\ pc = "done" => Len(emitted) = WindowCount)
    /\ (pc = "iter") ~> (pc = "done")

C12_Witness ==
    /\ pc = "done"
    /\ Len(emitted) >= 2
    /\ cfg.data_height > 1
    /\ (cfg.end - cfg.start) % cfg.data_height # 0

----------------------------------------------------------------------------
(* Claims about the builder's data height and its frame.                   *)

(* d is the smallest multiple of b that is at least n.                     *)
IsLeastMultipleAtLeast(d, b, n) ==
    /\ b > 0
    /\ d % b = 0
    /\ d >= n
    /\ d - b < n

(* The smallest row count whose pixels, at the given width, hold total.    *)
CeilRows(total, width) ==
    CHOOSE r \in 0..total :
        /\ r * width >= total
        /\ \A q \in 0..total : q * width >= total => q >= r

(* The rows asked for by the latest request; `new` starts from one row.    *)
RequestedRows ==
    IF requested.kind = "with_data_size"
    THEN CeilRows(requested.arg, cfg.width)
    ELSE IF requested.kind = "with_data_height" THEN requested.arg ELSE 1

(* C14: with_data_size(total) sets data_height to the smallest multiple of *)
(* the current block_size that is at least ceil(total / width), so that    *)
(* data_height * width >= total; with_data_height(h) sets it to the        *)
(* smallest multiple of block_size that is at least h.                     *)
C14_DataSizeAndHeight ==
    /\ [][WithDataSize =>
             /\ requested'.kind = "with_data_size"
             /\ IsLeastMultipleAtLeast(cfg'.data_height, cfg.block_size,
                                       CeilRows(requested'.arg, cfg.width))
             /\ cfg'.data_height * cfg.width >= requested'.arg]_vars
    /\ [][WithDataHeight =>
             /\ requested'.kind = "with_data_height"
             /\ IsLeastMultipleAtLeast(cfg'.data_height, cfg.block_size,
                                       requested'.arg)]_vars

C14_Witness ==
    /\ pc = "builder"
    /\ requested.kind = "with_data_size"
    /\ cfg.width > 1
    /\ requested.arg % cfg.width # 0
    /\ cfg.block_size > 1
    /\ cfg.data_height > CeilRows(requested.arg, cfg.width)
    /\ cfg.data_height * cfg.width > requested.arg

(* C17: at every point of the builder, data_height is the smallest         *)
(* multiple of the accumulated block_size that is at least the rows last   *)
(* asked for (one row when nothing was asked), however many add_block_size *)
(* calls came after the request.                                           *)
C17_NoOverRounding ==
    pc = "builder" =>
        IsLeastMultipleAtLeast(cfg.data_height, cfg.block_size, RequestedRows)

C17_Witness ==
    /\ pc = "builder"
    /\ requested.kind = "with_data_height"
    /\ Cardinality(added) >= 2
    /\ cfg.block_size > MaxBlock
    /\ requested.arg > 1
    /\ cfg.data_height > requested.arg

(* The configuration fields outside `fields` keep their values.            *)
OnlyChanges(fields) == \A f \in (DOMAIN cfg) \ fields : cfg'[f] = cfg[f]

(* C18: width and height never change after new; add_block_size changes at *)
(* most block_size and data_height; with_data_height and with_data_size    *)
(* change only data_height; with_padding only padding and start;           *)
(* with_start only start; with_end only end; build returns the             *)
(* configuration unchanged.                                                *)
C18_FrameEffects ==
    [][\/ cfg' = cfg
       \/ /\ cfg'.width = cfg.width /\ cfg'.height = cfg.height
          /\ AddBlockSize => OnlyChanges({"block_size", "data_height"})
          /\ WithDataHeight => OnlyChanges({"data_height"})
          /\ WithDataSize => OnlyChanges({"data_height"})
          /\ WithPadding => OnlyChanges({"padding", "start"})
          /\ WithStart => OnlyChanges({"start"})
          /\ WithEnd => OnlyChanges({"end"})
          /\ ~Build]_vars

C18_Witness ==
    /\ pc = "built"
    /\ cfg.block_size > 1
    /\ cfg.data_height > cfg.block_size
    /\ cfg.padding > 0
    /\ cfg.start > cfg.padding
    /\ cfg.end < cfg.height
    /\ cfg.end > 0

----------------------------------------------------------------------------
(* Claims about repeated traversals of one configuration.                  *)

IsPrefix(a, b) ==
    /\ Len(a) <= Len(b)
    /\ \A i \in 1..Len(a) : a[i] = b[i]

(* C15: once built, the configuration is never changed by iteration, every *)
(* traversal starts from cursor = start, and a later traversal yields the  *)
(* same windows in the same order as the one before it.                    *)
C15_RestartableReadOnly ==
    /\ [][(pc # "builder") => cfg' = cfg]_vars
    /\ [](pc = "iter" /\ emitted = <<>> => cursor = cfg.start)
    /\ [](prev.kind = "windows" =>
             /\ IsPrefix(emitted, prev.windows)
             /\ pc = "done" => emitted = prev.windows)

C15_Witness ==
    /\ prev.kind = "windows"
    /\ pc = "done"
    /\ Len(emitted) >= 2
    /\ cfg.start > 0

----------------------------------------------------------------------------
(* Claims about the window conversions, checked under SpecGeom.            *)

(* The integers the f64 cast leaves unchanged.                             *)
IsF64(n) == f64_of_int(n) = n

PairExact ==
    \A i \in 1..2 :
        /\ IsF64(g_pair[1][i])
        /\ IsF64(g_pair[2][i])
        /\ IsF64(g_pair[1][i] + g_pair[2][i])

(* C13 as stated: a window built from any (offset, size) pair of           *)
(* non-negative integers gives back that offset and that size, both        *)
(* through offset() / size() and through the conversion into               *)
(* (GdalOffset, Size).                                                     *)
C13_AnyPairRoundTrip ==
    /\ g_back # NoWindow =>
          /\ g_back.offset = g_pair[1]
          /\ g_back.size = g_pair[2]
    /\ g_gdal # NoWindow =>
          /\ g_gdal.offset = g_pair[1]
          /\ g_gdal.size = g_pair[2]

(* C13, amended: a window built from an (offset, size) pair whose offset,  *)
(* size and offset + size are each exactly representable as an f64 gives   *)
(* back that offset and that size, through offset() / size() and through   *)
(* the conversion into (GdalOffset, Size).                                 *)
C13_WindowRoundTrip ==
    PairExact =>
        /\ g_back # NoWindow =>
              /\ g_back.offset = g_pair[1]
              /\ g_back.size = g_pair[2]
        /\ g_gdal # NoWindow =>
              /\ g_gdal.offset = g_pair[1]
              /\ g_gdal.size = g_pair[2]

C13_Witness ==
    /\ PairExact
    /\ gpc = "consumed"
    /\ g_back # NoWindow
    /\ g_gdal # NoWindow
    /\ g_pair[1][1] > 0 /\ g_pair[1][2] > g_pair[1][1]
    /\ g_pair[2][1] > MaxCoord /\ g_pair[2][2] > 0
    /\ g_pair[2][2] < g_pair[2][1]
====
